---- MODULE Spec2Model ----
(***************************************************************************)
(* Urban air-quality ETL pipeline: extract.py, transform.py, load.py,      *)
(* etl_analysis.py and run_pipeline.py as one state machine.               *)
(*                                                                         *)
(* The four stages are sequential functions.  Each has a position          *)
(* variable (e_pc, t_pc, c_pc, l_pc, a_pc) and the orchestrator has pc.    *)
(* A stage run from its own __main__ entry point has pc = "standalone".    *)
(***************************************************************************)
EXTENDS Integers, Naturals, Sequences, FiniteSets, TLC

VARIABLES
    pc,             \* run_pipeline: position of the orchestrator
    started,        \* history: the stages run_pipeline has called, in order
    clock,          \* wall clock in whole seconds (resolution of the file name)
    ticks,          \* seconds that have passed inside the blocking fetches
    runs,           \* number of extract_all() calls made so far
    e_pc,           \* extract_all: "idle" | "fetch" | "returned" | "raised"
    e_city,         \* extract_all: index of the city of the current iteration
    e_attempt,      \* fetch_city_data: the loop variable `attempt`
    saved_files,    \* extract_all: the list it returns
    rawFiles,       \* data/raw: set of files [city, ts, body]
    writeLog,       \* history: every path opened for writing, in order
    e_tries,        \* history: fetch attempts made per city in this run
    e_result,       \* history: per city "none" | "failed" | "fetched"
    t_pc,           \* transform_pipeline: "idle" | "reading" | "returned" | "raised"
    unread,         \* transform_pipeline: files glob() has still to yield
    all_records,    \* transform_pipeline: the list all_records
    staged,         \* data/staged/air_quality_transformed.csv: its rows
    staged_written, \* whether the staged file exists
    c_pc,           \* create_table_if_not_exists: "idle" | "returned"
    l_path,         \* load_to_supabase: the file its path names ("none" before the call)
    l_pc,           \* load_to_supabase: "idle" | "first" | "retry" | "returned"
    l_i,            \* load_to_supabase: the loop variable i (0-based offset)
    records,        \* load_to_supabase: df.to_dict(orient="records")
    batch_size,     \* load_to_supabase: the parameter batch_size
    submitLog,      \* history: every batch handed to insert(), in order
    l_first,        \* history: per batch, outcome of its first insert
    l_slept,        \* seconds slept by the loader before retries
    l_msg,          \* load.py: the last message its functions printed
    store,          \* the remote table: the rows it holds, in insertion order
    a_pc,           \* etl_analysis_pipeline: "idle" | "returned" | "raised"
    metrics,        \* summary_metrics.csv: the KPI row (or NoMetrics)
    csvs_written,   \* whether save_csvs wrote the three CSVs
    plots_saved     \* the plots make_plots has saved, in order

vars == << pc, started, clock, ticks, runs, e_pc, e_city, e_attempt,
           saved_files,
           rawFiles, writeLog, e_tries, e_result, t_pc, unread, all_records,
           staged, staged_written, c_pc, l_path, l_pc, l_i, records,
           batch_size, submitLog, l_first, l_slept, l_msg, store, a_pc,
           metrics, csvs_written, plots_saved >>

extractVars   == << clock, ticks, runs, e_pc, e_city, e_attempt, saved_files,
                    rawFiles,
                    writeLog, e_tries, e_result >>
transformVars == << t_pc, unread, all_records, staged, staged_written >>
createVars    == << c_pc >>
\* The loader's own state, and with the message line all of load.py's.
loadState     == << l_path, l_pc, l_i, records, batch_size, submitLog, l_first,
                    l_slept, store >>
loadVars      == << loadState, l_msg >>
analysisVars  == << a_pc, metrics, csvs_written, plots_saved >>

\* What a step inside one stage leaves alone.
notExtract   == << pc, started, transformVars, createVars, loadVars,
                   analysisVars >>
notTransform == << pc, started, extractVars, createVars, loadVars,
                   analysisVars >>
notLoad      == << pc, started, extractVars, transformVars, createVars,
                   analysisVars >>
notAnalysis  == << pc, started, extractVars, transformVars, createVars,
                   loadVars >>

(***************************************************************************)
(* Bounds of the model.                                                    *)
(***************************************************************************)
MaxCities  == 2     \* how many of the configured CITIES are modelled
MaxClock   == 6     \* the clock stops advancing here
MaxTicks   == 1     \* seconds that pass inside the blocking fetches
MaxRuns    == 2     \* extract_all() calls per behaviour (standalone)
MaxRows    == 5     \* staged rows handed to a standalone load
MaxBatch   == 3     \* batch_size values tried by a standalone load
MaxStore   == 3     \* rows in the store when the analyzer runs standalone

(***************************************************************************)
(* Program constants.                                                      *)
(***************************************************************************)
Retries          == 3      \* fetch_city_data(retries=3)
Wait             == 2      \* fetch_city_data(wait=2)
DefaultBatchSize == 200    \* load_to_supabase(batch_size=200)
RetryDelay       == 3      \* sleep(3) before the loader's retry

\* Python None and float NaN.  Pollutant readings are naturals, so the two
\* nulls are encoded as negative integers to stay comparable with them.
None == -2
NaN  == -1

Min(a, b) == IF a <= b THEN a ELSE b

\* CITIES, in dict insertion order.
CITIES == << "Delhi", "Mumbai", "Bengaluru", "Hyderabad", "Kolkata" >>
Cities == SubSeq(CITIES, 1, Min(MaxCities, Len(CITIES)))
NumCities == Len(Cities)

\* city.lower(), used in the raw file's name.
Lower(c) ==
    CASE c = "Delhi"     -> "delhi"
      [] c = "Mumbai"    -> "mumbai"
      [] c = "Bengaluru" -> "bengaluru"
      [] c = "Hyderabad" -> "hyderabad"
      [] c = "Kolkata"   -> "kolkata"

\* json_file.stem.split("_raw_")[0].capitalize()
Capitalize(s) ==
    CASE s = "delhi"     -> "Delhi"
      [] s = "mumbai"    -> "Mumbai"
      [] s = "bengaluru" -> "Bengaluru"
      [] s = "hyderabad" -> "Hyderabad"
      [] s = "kolkata"   -> "Kolkata"

\* The seven pollutant columns, in the order transform_pipeline lists them.
Pollutants == << "pm10", "pm2_5", "carbon_monoxide", "nitrogen_dioxide",
                 "sulphur_dioxide", "ozone", "uv_index" >>
PollutantSet == { Pollutants[k] : k \in 1..Len(Pollutants) }

(***************************************************************************)
(* JSON bodies of the air-quality API.  A body is {} ("empty"), a          *)
(* non-empty object without hourly data ("nohourly"), or an object whose   *)
(* "hourly" member holds a time array and pollutant arrays ("hourly").     *)
(* A time is a count of hours; an array element is a number or None (JSON  *)
(* null); a pollutant array that is absent is the empty sequence, which is *)
(* what hourly_data.get(pollutant, []) makes of it.                        *)
(***************************************************************************)
NoArrays == [p \in PollutantSet |-> << >>]
BodyEmpty    == [kind |-> "empty",    time |-> << >>, arr |-> NoArrays]
BodyNoHourly == [kind |-> "nohourly", time |-> << >>, arr |-> NoArrays]

\* A reading that differs per pollutant, so that the weights are told apart.
Base(p) ==
    CASE p = "pm10"             -> 10
      [] p = "pm2_5"            -> 40
      [] p = "carbon_monoxide"  -> 20
      [] p = "nitrogen_dioxide" -> 30
      [] p = "sulphur_dioxide"  -> 5
      [] p = "ozone"            -> 7
      [] p = "uv_index"         -> 3

\* The array of pollutant p over n hours, in one of four shapes.
ShapedArr(shape, p, n) ==
    CASE shape = "missing" -> << >>
      [] shape = "nulls"   -> [i \in 1..n |-> None]
      [] shape = "short"   -> [i \in 1..Min(n, 1) |-> Base(p)]
      [] shape = "full"    -> [i \in 1..n |-> Base(p) + i - 1]

Shapes == { "missing", "nulls", "short", "full" }

MkHourly(times, pm, oth, uv) ==
    [kind |-> "hourly",
     time |-> times,
     arr  |-> [p \in PollutantSet |->
                 IF p = "pm2_5" THEN pm
                 ELSE IF p = "uv_index" THEN ShapedArr(uv, p, Len(times))
                 ELSE ShapedArr(oth, p, Len(times))]]

\* What the API is taken to answer in the extraction runs.
ApiBodies ==
    { BodyEmpty, BodyNoHourly,
      MkHourly(<< 0, 1 >>, << 40, 120 >>, "nulls", "nulls"),
      MkHourly(<< 0, 1 >>, << 40, 120 >>, "missing", "missing"),
      MkHourly(<< 25 >>, << 50 >>, "full", "full") }

\* `if data:` in extract_all: None and {} are falsy.
Truthy(body) == body.kind # "empty"

(***************************************************************************)
(* extract.py                                                              *)
(***************************************************************************)
CurCity == Cities[e_city]

\* RAW_DIR / f"{city.lower()}_raw_{timestamp}.json", timestamp to the second.
RawPath(c, now) == [city |-> Lower(c), ts |-> now]
PathOf(f) == [city |-> f.city, ts |-> f.ts]

\* The first statements of extract_all().
BeginExtract ==
    /\ e_pc' = "fetch"
    /\ e_city' = 1
    /\ e_attempt' = 1
    /\ saved_files' = << >>
    /\ e_tries' = [k \in 1..NumCities |-> 0]
    /\ e_result' = [k \in 1..NumCities |-> "none"]
    /\ runs' = runs + 1
    /\ UNCHANGED << clock, ticks, rawFiles, writeLog >>

\* The end of one iteration of `for city, coords in CITIES.items()`.
AdvanceCity ==
    IF e_city < NumCities
    THEN /\ e_city' = e_city + 1
         /\ e_attempt' = 1
         /\ e_pc' = "fetch"
    ELSE /\ e_pc' = "returned"
         /\ UNCHANGED << e_city, e_attempt >>

\* One attempt of fetch_city_data that raises (transport error, HTTP status,
\* invalid JSON): the handler sleeps `wait` seconds; after the last attempt
\* the function returns None and extract_all moves on.
FetchFail ==
    /\ e_pc = "fetch"
    /\ clock + Wait <= MaxClock
    /\ clock' = clock + Wait
    /\ e_tries' = [e_tries EXCEPT ![e_city] = @ + 1]
    /\ IF e_attempt < Retries
       THEN /\ e_attempt' = e_attempt + 1
            /\ UNCHANGED << e_pc, e_city, e_result >>
       ELSE /\ e_result' = [e_result EXCEPT ![e_city] = "failed"]
            /\ AdvanceCity
    /\ UNCHANGED << ticks, runs, saved_files, rawFiles, writeLog >>
    /\ UNCHANGED notExtract

\* One attempt that succeeds with `body`: fetch_city_data returns it and
\* extract_all writes it to the raw file named by the city and the current
\* second (open(filename, "w") truncates a file already there), unless the
\* body is falsy.
FetchOk(body) ==
    /\ e_pc = "fetch"
    /\ e_tries' = [e_tries EXCEPT ![e_city] = @ + 1]
    /\ e_result' = [e_result EXCEPT ![e_city] = "fetched"]
    /\ IF Truthy(body)
       THEN LET path == RawPath(CurCity, clock) IN
            /\ rawFiles' = { f \in rawFiles : PathOf(f) # path }
                             \cup { [city |-> path.city, ts |-> path.ts,
                                     body |-> body] }
            /\ writeLog' = Append(writeLog, path)
            /\ saved_files' = Append(saved_files, path)
       ELSE UNCHANGED << rawFiles, writeLog, saved_files >>
    /\ AdvanceCity
    /\ UNCHANGED << clock, ticks, runs >>
    /\ UNCHANGED notExtract

\* As FetchOk, but open() raises (OSError): nothing catches it and
\* extract_all ends by raising.
FetchOkWriteRaises(body) ==
    /\ e_pc = "fetch"
    /\ Truthy(body)
    /\ e_tries' = [e_tries EXCEPT ![e_city] = @ + 1]
    /\ e_result' = [e_result EXCEPT ![e_city] = "fetched"]
    /\ e_pc' = "raised"
    /\ UNCHANGED << clock, ticks, runs, e_city, e_attempt, saved_files, rawFiles,
                    writeLog >>
    /\ UNCHANGED notExtract

\* A second passes while extract_all waits for the network.
Tick ==
    /\ e_pc = "fetch"
    /\ clock < MaxClock
    /\ ticks < MaxTicks
    /\ clock' = clock + 1
    /\ ticks' = ticks + 1
    /\ UNCHANGED << runs, e_pc, e_city, e_attempt, saved_files, rawFiles,
                    writeLog, e_tries, e_result >>
    /\ UNCHANGED notExtract

\* `python extract.py`: the entry point calls extract_all().
ExtractMain ==
    /\ pc = "standalone"
    /\ e_pc \in { "idle", "returned", "raised" }
    /\ runs < MaxRuns
    /\ BeginExtract
    /\ UNCHANGED notExtract

(***************************************************************************)
(* transform.py                                                            *)
(*                                                                         *)
(* A record is a function on Columns.  Two nulls occur in it: NaN, which   *)
(* pd.to_numeric makes of a JSON null, and None, which line 73 stores when *)
(* the pollutant's array has no element at the index.                      *)
(***************************************************************************)
Columns == { "city", "time" } \cup PollutantSet

IsNull(v) == v = None \/ v = NaN

\* Float comparison and arithmetic: a comparison with NaN is false, and an
\* operation on NaN is NaN.
Le(a, b)  == a # NaN /\ a <= b
Gt(a, b)  == a # NaN /\ a > b
Mul(a, k) == IF a = NaN THEN NaN ELSE a * k
Add(a, b) == IF a = NaN \/ b = NaN THEN NaN ELSE a + b

\* pd.to_numeric(values[i]): a number is returned as it is, None as NaN.
ToNumeric(v) == IF v = None THEN NaN ELSE v

\* record[pollutant] = pd.to_numeric(values[i]) if i < len(values) else None
\* (i counts from 1 here).
Cell(values, i) == IF i <= Len(values) THEN ToNumeric(values[i]) ELSE None

\* The records one raw file contributes: none unless "hourly" is a non-empty
\* object, else one per element of its time array.
RecordsOf(f) ==
    IF f.body.kind # "hourly"
    THEN << >>
    ELSE [i \in 1..Len(f.body.time) |->
            [col \in Columns |->
                CASE col = "city" -> Capitalize(f.city)
                  [] col = "time" -> f.body.time[i]
                  [] OTHER        -> Cell(f.body.arr[col], i)]]

\* pd.DataFrame(all_records): a column whose every value is None keeps
\* dtype object and its None values; in any other column None becomes NaN.
ColumnAllNone(recs, p) == \A i \in 1..Len(recs) : recs[i][p] = None

DataFrame(recs) ==
    [i \in 1..Len(recs) |->
        [col \in Columns |->
            IF col \in PollutantSet /\ recs[i][col] = None
               /\ ~ColumnAllNone(recs, col)
            THEN NaN
            ELSE recs[i][col]]]

\* df.dropna(subset=pollutant_cols, how="all")
AllPollutantsNull(row) == \A p \in PollutantSet : IsNull(row[p])
KeepRow(row) == ~AllPollutantsNull(row)
DropNa(df) == SelectSeq(df, KeepRow)

aqi_pm25_category(pm25) ==
    IF Le(pm25, 50) THEN "Good"
    ELSE IF Le(pm25, 100) THEN "Moderate"
    ELSE IF Le(pm25, 200) THEN "Unhealthy"
    ELSE IF Le(pm25, 300) THEN "Very Unhealthy"
    ELSE "Hazardous"

\* row.get(name, 0) returns the row's value, null or not: the key is always
\* there, so the default 0 is never used.
compute_severity(row) ==
    Add(Add(Add(Add(Add(Mul(row["pm2_5"], 5),
                        Mul(row["pm10"], 3)),
                    Mul(row["nitrogen_dioxide"], 4)),
                Mul(row["sulphur_dioxide"], 4)),
            Mul(row["carbon_monoxide"], 2)),
        Mul(row["ozone"], 3))

risk_classification(severity) ==
    IF Gt(severity, 400) THEN "High Risk"
    ELSE IF Gt(severity, 200) THEN "Moderate Risk"
    ELSE "Low Risk"

\* The columns compute_severity multiplies.
Weighted == { "pm2_5", "pm10", "nitrogen_dioxide", "sulphur_dioxide",
              "carbon_monoxide", "ozone" }

\* None <= 50 and None * 5 are TypeErrors.
CategoryRaises(df) == \E i \in 1..Len(df) : df[i]["pm2_5"] = None
SeverityRaises(df) == \E i \in 1..Len(df) : \E p \in Weighted : df[i][p] = None

\* The feature-engineering lines: one staged row per row of df.
StagedRow(row) ==
    [city |-> row["city"], time |-> row["time"],
     pm10 |-> row["pm10"], pm2_5 |-> row["pm2_5"],
     carbon_monoxide |-> row["carbon_monoxide"],
     nitrogen_dioxide |-> row["nitrogen_dioxide"],
     sulphur_dioxide |-> row["sulphur_dioxide"],
     ozone |-> row["ozone"], uv_index |-> row["uv_index"],
     AQI_Category |-> aqi_pm25_category(row["pm2_5"]),
     Pollution_Severity |-> compute_severity(row),
     Risk_Level |-> risk_classification(compute_severity(row)),
     hour |-> row["time"] % 24]

Features(df) == [i \in 1..Len(df) |-> StagedRow(df[i])]

\* The first statements of transform_pipeline(); glob() lists data/raw.
BeginTransform ==
    /\ t_pc' = "reading"
    /\ unread' = rawFiles
    /\ all_records' = << >>
    /\ UNCHANGED << staged, staged_written >>

\* One iteration of `for json_file in RAW_DIR.glob(...)`; glob yields the
\* files in no particular order.
TransformFile(f) ==
    /\ t_pc = "reading"
    /\ f \in unread
    /\ unread' = unread \ { f }
    /\ all_records' = all_records \o RecordsOf(f)
    /\ UNCHANGED << t_pc, staged, staged_written >>
    /\ UNCHANGED notTransform

\* The rest of transform_pipeline, after the loop.  dropna raises KeyError
\* on a frame without the pollutant columns (no record at all); the feature
\* lines raise TypeError on None.  Otherwise the staged file is overwritten.
TransformFinish ==
    /\ t_pc = "reading"
    /\ unread = { }
    /\ LET df == DropNa(DataFrame(all_records)) IN
       IF all_records = << >> \/ CategoryRaises(df) \/ SeverityRaises(df)
       THEN /\ t_pc' = "raised"
            /\ UNCHANGED << staged, staged_written >>
       ELSE /\ t_pc' = "returned"
            /\ staged' = Features(df)
            /\ staged_written' = TRUE
    /\ UNCHANGED << unread, all_records >>
    /\ UNCHANGED notTransform

\* `python transform.py`
TransformMain ==
    /\ pc = "standalone"
    /\ t_pc = "idle"
    /\ BeginTransform
    /\ UNCHANGED notTransform

(***************************************************************************)
(* load.py                                                                 *)
(***************************************************************************)
\* df.where(pd.notnull(df), None) on a float64 column.  No pandas version is
\* pinned: an older pandas casts the column to object and stores None
\* (toObject), a newer one keeps the dtype and with it NaN.
NullToNone(v, toObject) ==
    IF IsNull(v) THEN (IF toObject THEN None ELSE NaN) ELSE v

\* read_staged_csv: the rename map and the null conversion, row by row.
StoredRow(r, toObject) ==
    [city |-> r.city, time |-> r.time,
     pm10 |-> NullToNone(r.pm10, toObject),
     pm2_5 |-> NullToNone(r.pm2_5, toObject),
     carbon_monoxide |-> NullToNone(r.carbon_monoxide, toObject),
     nitrogen_dioxide |-> NullToNone(r.nitrogen_dioxide, toObject),
     sulphur_dioxide |-> NullToNone(r.sulphur_dioxide, toObject),
     ozone |-> NullToNone(r.ozone, toObject),
     uv_index |-> NullToNone(r.uv_index, toObject),
     aqi_category |-> r.AQI_Category,
     severity_score |-> NullToNone(r.Pollution_Severity, toObject),
     risk_flag |-> r.Risk_Level,
     hour |-> r.hour]

read_staged_csv(rows, toObject) ==
    [i \in 1..Len(rows) |-> StoredRow(rows[i], toObject)]

\* create_table_if_not_exists(): the RPC succeeds, or its exception is
\* caught and the DDL is printed; either way the function returns.
CreateTable(rpcOk) ==
    /\ c_pc' = "returned"
    /\ l_msg' = IF rpcOk THEN "Table create RPC executed"
                         ELSE "Run this SQL manually"

total == Len(records)

\* A slice that stops one row early.
SliceEndShort(i) == Min(i + batch_size - 1, total)

\* batch = records[i:i + batch_size]
SliceEnd(i) == Min(i + batch_size, total)
Batch(i) == SubSeq(records, i + 1, SliceEnd(i))

\* i // batch_size + 1, the batch number the messages print.
BatchNo(i) == (i \div batch_size) + 1

\* The end of an iteration that printed msg.  range(0, total, batch_size)
\* gives the next value of i; when there is none the loop ends and the
\* function prints "Load complete." and returns.
NextBatch(msg) ==
    /\ l_i' = l_i + batch_size
    /\ IF l_i + batch_size < total
       THEN /\ l_pc' = "first"
            /\ l_msg' = msg
       ELSE /\ l_pc' = "returned"
            /\ l_msg' = "Load complete"

\* `break` in the place of `continue`: the loop ends at the failed batch.
Break(msg) ==
    /\ l_i' = l_i
    /\ l_pc' = "returned"
    /\ l_msg' = "Load complete"

\* `continue` in the except clause.
Continue(msg) == NextBatch(msg)

Submit(attempt) ==
    submitLog' = Append(submitLog,
                        [no |-> BatchNo(l_i), attempt |-> attempt,
                         rows |-> Batch(l_i)])

\* The first statements of load_to_supabase(path, bs), path naming `file`:
\* a file with rows, or no file at all.  pd.read_csv raises when the file is
\* not there.  With no row the loop is empty: "Load complete." is printed
\* and the function returns.
BeginLoad(file, bs) ==
    /\ l_path' = file.name
    /\ IF ~file.exists
       THEN /\ l_pc' = "raised"
            /\ UNCHANGED << l_i, records, batch_size, submitLog, l_first,
                            l_slept, l_msg, store >>
       ELSE /\ records' \in { read_staged_csv(file.rows, toObject) :
                                toObject \in BOOLEAN }
            /\ batch_size' = bs
            /\ l_i' = 0
            /\ IF Len(file.rows) > 0
               THEN /\ l_pc' = "first"
                    /\ l_msg' = "Loading"
               ELSE /\ l_pc' = "returned"
                    /\ l_msg' = "Load complete"
            /\ submitLog' = << >>
            /\ l_first' = << >>
            /\ l_slept' = 0
            /\ UNCHANGED store

\* The first insert of the batch returns a result without error.
InsertOk ==
    /\ l_pc = "first"
    /\ Submit(1)
    /\ l_first' = Append(l_first, "ok")
    /\ store' = store \o Batch(l_i)
    /\ NextBatch("Inserted batch")
    /\ UNCHANGED << l_path, records, batch_size, l_slept >>
    /\ UNCHANGED notLoad

\* The first insert returns a result whose error is set: sleep, then retry.
InsertErrorResult ==
    /\ l_pc = "first"
    /\ Submit(1)
    /\ l_first' = Append(l_first, "error")
    /\ l_slept' = l_slept + RetryDelay
    /\ l_msg' = "Insert failed, retrying"
    /\ l_pc' = "retry"
    /\ UNCHANGED << l_path, l_i, records, batch_size, store >>
    /\ UNCHANGED notLoad

\* The first insert raises: the except clause prints and continues.
InsertRaises ==
    /\ l_pc = "first"
    /\ Submit(1)
    /\ l_first' = Append(l_first, "raised")
    /\ Continue("Retry failed")
    /\ UNCHANGED << l_path, records, batch_size, l_slept, store >>
    /\ UNCHANGED notLoad

\* The retry returns a result without error.
RetryOk ==
    /\ l_pc = "retry"
    /\ Submit(2)
    /\ store' = store \o Batch(l_i)
    /\ NextBatch("Retry success")
    /\ UNCHANGED << l_path, records, batch_size, l_first, l_slept >>
    /\ UNCHANGED notLoad

\* The retry returns a result whose error is set: the result is not looked
\* at, "Retry success" is printed, and the loop goes on.
RetryErrorResult ==
    /\ l_pc = "retry"
    /\ Submit(2)
    /\ NextBatch("Retry success")
    /\ UNCHANGED << l_path, records, batch_size, l_first, l_slept, store >>
    /\ UNCHANGED notLoad

\* The retry raises: the except clause prints and continues.
RetryRaises ==
    /\ l_pc = "retry"
    /\ Submit(2)
    /\ Continue("Retry failed")
    /\ UNCHANGED << l_path, records, batch_size, l_first, l_slept, store >>
    /\ UNCHANGED notLoad

(***************************************************************************)
(* etl_analysis.py                                                         *)
(*                                                                         *)
(* A mean is the pair << sum, count >> of the non-null values of a group;  *)
(* a group without one has mean NaN and dropna() removes it.               *)
(***************************************************************************)
\* Ascending order of the city names (the order groupby sorts its keys in).
NameOrder == << "Bengaluru", "Delhi", "Hyderabad", "Kolkata", "Mumbai" >>
HourOrder == [h \in 1..24 |-> h - 1]

NoCity  == "None"
NoValue == << >>

RECURSIVE SumTo(_, _, _, _, _)
SumTo(df, key, k, col, n) ==
    IF n = 0 THEN 0
    ELSE SumTo(df, key, k, col, n - 1)
         + (IF df[n][key] = k /\ ~IsNull(df[n][col]) THEN df[n][col] ELSE 0)

CountOf(df, key, k, col) ==
    Cardinality({ i \in 1..Len(df) : df[i][key] = k /\ ~IsNull(df[i][col]) })

\* The keys of df.groupby(key, sort=False): in order of first appearance.
RECURSIVE AppearanceTo(_, _, _)
AppearanceTo(df, key, n) ==
    IF n = 0 THEN << >>
    ELSE LET before == AppearanceTo(df, key, n - 1)
         IN  IF \E j \in 1..Len(before) : before[j] = df[n][key]
             THEN before
             ELSE Append(before, df[n][key])

GroupKeysUnsorted(df, key, order) == AppearanceTo(df, key, Len(df))

\* The keys of df.groupby(key): those present, in ascending order.
GroupKeys(df, key, order) ==
    LET Present(k) == \E i \in 1..Len(df) : df[i][key] = k
    IN  SelectSeq(order, Present)

\* df.groupby(key)[col].mean().dropna()
GroupMeans(df, key, order, col) ==
    LET keys == GroupKeys(df, key, order)
        all  == [j \in 1..Len(keys) |->
                   [key  |-> keys[j],
                    mean |-> << SumTo(df, key, keys[j], col, Len(df)),
                                CountOf(df, key, keys[j], col) >>]]
        HasMean(g) == g.mean[2] > 0
    IN  SelectSeq(all, HasMean)

MeanLt(a, b) == a[1] * b[2] < b[1] * a[2]

\* Series.idxmax(): the position of the first occurrence of the maximum.
IdxMaxPos(series) ==
    CHOOSE k \in 1..Len(series) :
        /\ \A j \in 1..Len(series) : ~MeanLt(series[k].mean, series[j].mean)
        /\ \A j \in 1..(k - 1) : MeanLt(series[j].mean, series[k].mean)

\* risk_counts.get(flag, 0) / total * 100, as numerator and denominator.
RiskPct(df, flag) ==
    LET n == Cardinality({ i \in 1..Len(df) : df[i].risk_flag = flag })
    IN  << 100 * n, Len(df) >>

compute_kpis(df) ==
    LET pm25_by_city == GroupMeans(df, "city", NameOrder, "pm2_5")
        sev_by_city  == GroupMeans(df, "city", NameOrder, "severity_score")
        hour_pm25    == GroupMeans(df, "hour", HourOrder, "pm2_5")
    IN  [city_highest_avg_pm2_5 |->
            IF pm25_by_city # << >>
            THEN pm25_by_city[IdxMaxPos(pm25_by_city)].key ELSE NoCity,
         highest_avg_pm2_5_value |->
            IF pm25_by_city # << >>
            THEN pm25_by_city[IdxMaxPos(pm25_by_city)].mean ELSE NoValue,
         city_highest_severity |->
            IF sev_by_city # << >>
            THEN sev_by_city[IdxMaxPos(sev_by_city)].key ELSE NoCity,
         highest_severity_value |->
            IF sev_by_city # << >>
            THEN sev_by_city[IdxMaxPos(sev_by_city)].mean ELSE NoValue,
         pct_high_risk     |-> RiskPct(df, "High Risk"),
         pct_moderate_risk |-> RiskPct(df, "Moderate Risk"),
         pct_low_risk      |-> RiskPct(df, "Low Risk"),
         worst_aqi_hour |->
            IF hour_pm25 # << >>
            THEN hour_pm25[IdxMaxPos(hour_pm25)].key ELSE None,
         worst_aqi_hour_avg_pm2_5 |->
            IF hour_pm25 # << >>
            THEN hour_pm25[IdxMaxPos(hour_pm25)].mean ELSE NoValue]

NoMetrics ==
    [city_highest_avg_pm2_5 |-> NoCity, highest_avg_pm2_5_value |-> NoValue,
     city_highest_severity |-> NoCity, highest_severity_value |-> NoValue,
     pct_high_risk |-> NoValue, pct_moderate_risk |-> NoValue,
     pct_low_risk |-> NoValue, worst_aqi_hour |-> None,
     worst_aqi_hour_avg_pm2_5 |-> NoValue]

\* pd.DataFrame(res.data) gives a column that holds only None the dtype
\* object (a column with a number or a NaN in it is float64), and
\* df.groupby(..)[col].mean() is taken on it.  No pandas version is
\* pinned: an older pandas raises, a newer one gives NaN means, which
\* dropna() removes, so that compute_kpis reports None.
KpiMayRaise(df) ==
    ColumnAllNone(df, "pm2_5") \/ ColumnAllNone(df, "severity_score")

\* len(df[col].dropna())
NonNull(df, col) == Cardinality({ i \in 1..Len(df) : ~IsNull(df[i][col]) })

\* plt.scatter(df["pm2_5"].dropna(), df["severity_score"].dropna()) raises
\* ValueError when the two series differ in length.
ScatterRaises(df) == NonNull(df, "pm2_5") # NonNull(df, "severity_score")

PlotNames == << "hist_pm2_5.png", "bar_risk_per_city.png",
                "line_hourly_pm2_5_trends.png",
                "scatter_severity_vs_pm2_5.png" >>

\* make_plots: the plots it saves; the scatter is the last, and the three
\* before it are saved when it raises.
make_plots(df) ==
    IF ScatterRaises(df) THEN SubSeq(PlotNames, 1, 3) ELSE PlotNames

\* etl_analysis_pipeline(): fetch the table (a store error raises); nothing
\* is written for an empty table; otherwise the KPI row is computed (which
\* raises on an object column under an older pandas), the CSVs are written,
\* and then the plots are made (which may raise, the CSVs being written
\* already).
Analysis(fetchOk) ==
    IF ~fetchOk
    THEN /\ a_pc' = "raised"
         /\ UNCHANGED << metrics, csvs_written, plots_saved >>
    ELSE IF store = << >>
    THEN /\ a_pc' = "returned"
         /\ UNCHANGED << metrics, csvs_written, plots_saved >>
    ELSE \/ /\ KpiMayRaise(store)
            /\ a_pc' = "raised"
            /\ UNCHANGED << metrics, csvs_written, plots_saved >>
         \/ /\ metrics' = compute_kpis(store)
            /\ csvs_written' = TRUE
            /\ plots_saved' = make_plots(store)
            /\ a_pc' = IF ScatterRaises(store) THEN "raised" ELSE "returned"

(***************************************************************************)
(* run_pipeline.py                                                         *)
(***************************************************************************)
StageOrder == << "extract", "transform", "create_table", "load", "analysis" >>

StagePc(stage) ==
    CASE stage = "extract"      -> e_pc
      [] stage = "transform"    -> t_pc
      [] stage = "create_table" -> c_pc
      [] stage = "load"         -> l_pc
      [] stage = "analysis"     -> a_pc

\* A call whose exception is swallowed: the next statement runs anyway.
CanStartAnyway(prev) == pc = prev /\ StagePc(prev) \in { "returned", "raised" }

\* The statement after a call runs when the call has returned.
CanStart(prev) == pc = prev /\ StagePc(prev) = "returned"

StartExtract ==
    /\ pc = "start"
    /\ pc' = "extract"
    /\ started' = Append(started, "extract")
    /\ BeginExtract
    /\ UNCHANGED << transformVars, createVars, loadVars,
                    analysisVars >>

StartTransform ==
    /\ CanStart("extract")
    /\ pc' = "transform"
    /\ started' = Append(started, "transform")
    /\ BeginTransform
    /\ UNCHANGED << extractVars, createVars, loadVars,
                    analysisVars >>

StartCreateTable(rpcOk) ==
    /\ CanStart("transform")
    /\ pc' = "create_table"
    /\ started' = Append(started, "create_table")
    /\ CreateTable(rpcOk)
    /\ UNCHANGED << extractVars, transformVars, loadState,
                    analysisVars >>

\* n staged rows, told apart by their time; the second has no uv_index.
LoadInput(i) ==
    [col \in Columns |->
        CASE col = "city"  -> "Delhi"
          [] col = "time"  -> i - 1
          [] col = "pm2_5" -> 40 + i
          [] col = "uv_index" /\ i = 2 -> NaN
          [] OTHER         -> 0]

StagedRows(n) == [i \in 1..n |-> StagedRow(LoadInput(i))]

\* The file transform_pipeline writes, STAGED_DIR under the scripts' own
\* directory.
TheStaged == [name |-> "staged", exists |-> staged_written, rows |-> staged]

\* Path("data/staged/air_quality_transformed.csv") is relative to the
\* working directory.  Run from the scripts' directory it names the file
\* transform_pipeline writes; run from elsewhere it names no file, or a
\* file an earlier run left there.
RelativeStaged ==
    { TheStaged,
      [name |-> "missing", exists |-> FALSE, rows |-> << >>],
      [name |-> "other",   exists |-> TRUE,  rows |-> StagedRows(1)] }

StartLoad ==
    /\ CanStart("create_table")
    /\ pc' = "load"
    /\ started' = Append(started, "load")
    /\ \E file \in RelativeStaged : BeginLoad(file, DefaultBatchSize)
    /\ UNCHANGED << extractVars, transformVars, createVars,
                    analysisVars >>

\* The last statements of run_pipeline(): the analysis is called; when it
\* returns the closing message is printed, and when it raises the exception
\* leaves run_pipeline().
StartAnalysis(fetchOk) ==
    /\ CanStart("load")
    /\ started' = Append(started, "analysis")
    /\ Analysis(fetchOk)
    /\ pc' = IF a_pc' = "returned" THEN "done" ELSE "aborted"
    /\ UNCHANGED << extractVars, transformVars, createVars,
                    loadVars >>

\* An exception of an earlier stage leaves run_pipeline(): nothing in it
\* catches one.
PipelineAbort ==
    /\ pc \in { StageOrder[k] : k \in 1..Len(StageOrder) }
    /\ StagePc(pc) = "raised"
    /\ pc' = "aborted"
    /\ UNCHANGED << started, extractVars, transformVars, createVars,
                    loadVars, analysisVars >>

(***************************************************************************)
(* Initial states.                                                         *)
(***************************************************************************)
ExtractIdle ==
    /\ clock = 0
    /\ ticks = 0
    /\ runs = 0
    /\ e_pc = "idle"
    /\ e_city = 1
    /\ e_attempt = 1
    /\ saved_files = << >>
    /\ writeLog = << >>
    /\ e_tries = [k \in 1..NumCities |-> 0]
    /\ e_result = [k \in 1..NumCities |-> "none"]

TransformIdle ==
    /\ t_pc = "idle"
    /\ unread = { }
    /\ all_records = << >>

CreateIdle ==
    /\ c_pc = "idle"

LoadIdle ==
    /\ l_path = "none"
    /\ l_pc = "idle"
    /\ l_i = 0
    /\ records = << >>
    /\ submitLog = << >>
    /\ l_first = << >>
    /\ l_slept = 0
    /\ l_msg = ""

AnalysisIdle ==
    /\ a_pc = "idle"
    /\ metrics = NoMetrics
    /\ csvs_written = FALSE
    /\ plots_saved = << >>

\* run_pipeline() on a fresh checkout, started from any directory: no raw
\* file, no staged file, an empty table.
Init ==
    /\ pc = "start"
    /\ started = << >>
    /\ ExtractIdle /\ TransformIdle /\ CreateIdle /\ LoadIdle /\ AnalysisIdle
    /\ rawFiles = { }
    /\ staged = << >>
    /\ staged_written = FALSE
    /\ batch_size = DefaultBatchSize
    /\ store = << >>

Next ==
    \/ StartExtract
    \/ FetchFail
    \/ \E body \in ApiBodies : FetchOk(body)
    \/ \E body \in ApiBodies : FetchOkWriteRaises(body)
    \/ Tick
    \/ StartTransform
    \/ \E f \in unread : TransformFile(f)
    \/ TransformFinish
    \/ \E rpcOk \in BOOLEAN : StartCreateTable(rpcOk)
    \/ StartLoad
    \/ InsertOk
    \/ InsertErrorResult
    \/ InsertRaises
    \/ RetryOk
    \/ RetryErrorResult
    \/ RetryRaises
    \/ \E fetchOk \in BOOLEAN : StartAnalysis(fetchOk)
    \/ PipelineAbort

Spec == Init /\ [][Next]_vars

(***************************************************************************)
(* Each stage run on its own, from states the earlier stages can leave.    *)
(***************************************************************************)
Standalone ==
    /\ pc = "standalone"
    /\ started = << >>

\* `python extract.py`, run MaxRuns times on an empty data/raw.
InitExtract ==
    /\ Standalone
    /\ ExtractIdle /\ TransformIdle /\ CreateIdle /\ LoadIdle /\ AnalysisIdle
    /\ rawFiles = { }
    /\ staged = << >>
    /\ staged_written = FALSE
    /\ batch_size = DefaultBatchSize
    /\ store = << >>

NextExtract ==
    \/ ExtractMain
    \/ FetchFail
    \/ \E body \in ApiBodies : FetchOk(body)
    \/ \E body \in ApiBodies : FetchOkWriteRaises(body)
    \/ Tick

SpecExtract == InitExtract /\ [][NextExtract]_vars

\* The pm2_5 arrays and raw-file bodies the transformer is tried on.
PmArrs ==
    { << 40, 120 >>, << None, 40 >>, << None, None >>, << >>, << 50 >>,
      << 51, 100 >>, << 101, 200 >>, << 201, 300 >>, << 301, 0 >> }

TransformBodies ==
    ApiBodies \cup
    { MkHourly(<< 0, 1 >>, pm, oth, uv) :
        pm \in PmArrs, oth \in Shapes, uv \in { "missing", "full" } }

RawFile(c, t, body) == [city |-> c, ts |-> t, body |-> body]

\* `python transform.py` on a data/raw that holds one or two files.
InitTransform ==
    /\ Standalone
    /\ ExtractIdle /\ TransformIdle /\ CreateIdle /\ LoadIdle /\ AnalysisIdle
    /\ \E b1 \in TransformBodies \ { BodyEmpty } :
         \/ rawFiles = { RawFile("delhi", 0, b1) }
         \/ \E b2 \in TransformBodies \ { BodyEmpty } :
              \/ rawFiles = { RawFile("delhi", 0, b1), RawFile("mumbai", 0, b2) }
              \/ rawFiles = { RawFile("delhi", 0, b1), RawFile("delhi", 1, b2) }
    /\ staged = << >>
    /\ staged_written = FALSE
    /\ batch_size = DefaultBatchSize
    /\ store = << >>

NextTransform ==
    \/ TransformMain
    \/ \E f \in unread : TransformFile(f)
    \/ TransformFinish

SpecTransform == InitTransform /\ [][NextTransform]_vars

\* load_to_supabase(path, B) on a staged file of N rows, N in 0..MaxRows and
\* B in 1..MaxBatch.
InitLoad ==
    /\ Standalone
    /\ ExtractIdle /\ TransformIdle /\ CreateIdle /\ LoadIdle /\ AnalysisIdle
    /\ rawFiles = { }
    /\ \E n \in 0..MaxRows : staged = StagedRows(n)
    /\ staged_written = TRUE
    /\ batch_size \in 1..MaxBatch
    /\ store = << >>

LoadCall ==
    /\ pc = "standalone"
    /\ l_pc = "idle"
    /\ BeginLoad(TheStaged, batch_size)
    /\ UNCHANGED notLoad

NextLoad ==
    \/ LoadCall
    \/ InsertOk
    \/ InsertErrorResult
    \/ InsertRaises
    \/ RetryOk
    \/ RetryErrorResult
    \/ RetryRaises

SpecLoad == InitLoad /\ [][NextLoad]_vars

\* The loader is sequential code whose blocking calls return or raise: it
\* always takes its next step.
SpecLoadFair == SpecLoad /\ WF_vars(NextLoad)

\* The rows the analyzer is tried on, as the table gives them back (a null
\* is None): three cities, a null and two values of pm2_5, and two hours
\* with different pm10; and one row that has pm2_5 but no pm10, hence no
\* severity.
KpiInput(c, pm, k, p10) ==
    [col \in Columns |->
        CASE col = "city"  -> c
          [] col = "time"  -> k
          [] col = "pm2_5" -> pm
          [] col = "pm10"  -> p10
          [] OTHER         -> 0]

KpiRows ==
    { StoredRow(StagedRow(KpiInput(c, pm, k, 50 * k)), TRUE) :
        c \in { "Delhi", "Mumbai", "Bengaluru" }, pm \in { NaN, 50, 100 },
        k \in { 0, 1 } }
    \cup { StoredRow(StagedRow(KpiInput("Delhi", 50, 1, NaN)), TRUE) }

\* `python etl_analysis.py` on a table of up to MaxStore rows, in any order.
InitKpi ==
    /\ Standalone
    /\ ExtractIdle /\ TransformIdle /\ CreateIdle /\ LoadIdle /\ AnalysisIdle
    /\ rawFiles = { }
    /\ staged = << >>
    /\ staged_written = FALSE
    /\ batch_size = DefaultBatchSize
    /\ \E n \in 0..MaxStore : store \in [1..n -> KpiRows]

AnalysisMain(fetchOk) ==
    /\ pc = "standalone"
    /\ a_pc = "idle"
    /\ Analysis(fetchOk)
    /\ UNCHANGED notAnalysis

NextKpi == \E fetchOk \in BOOLEAN : AnalysisMain(fetchOk)

SpecKpi == InitKpi /\ [][NextKpi]_vars

(***************************************************************************)
(* Properties.                                                             *)
(***************************************************************************)
\* How often batch number b was handed to insert().
Submissions(b) ==
    Cardinality({ k \in 1..Len(submitLog) : submitLog[k].no = b })

\* ceil(N / B)
CeilDiv(n, b) == (n + b - 1) \div b

\* C1: every batch whose first insert fails, by an error result or by an
\* exception, is submitted exactly once more, and no batch is submitted more
\* than twice.  (Fails: an exception of the first insert goes straight to
\* the except clause.)
C1_FailedBatchRetriedOnce ==
    l_pc = "returned" =>
        \A b \in 1..Len(l_first) :
            Submissions(b) = (IF l_first[b] = "ok" THEN 1 ELSE 2)

\* C2: whatever the inserts answer, the load loop ends, and by then every
\* batch, also one after a batch that failed twice, was submitted.
C2_LaterBatchesSubmitted ==
    <>(/\ l_pc = "returned"
       /\ \A b \in 1..CeilDiv(Len(staged), batch_size) : Submissions(b) >= 1)

\* The rows of batch b reached the table.
Stored(b) ==
    \E k \in 1..Len(submitLog) :
        /\ submitLog[k].no = b
        /\ submitLog[k].rows # << >>
        /\ \E j \in 1..Len(store) : store[j] = submitLog[k].rows[1]

\* A batch failed on its first insert and on its retry, and the batch after
\* it was inserted.
C2_Witness ==
    /\ l_pc = "returned"
    /\ \E b \in 1..(Len(l_first) - 1) :
        /\ l_first[b] = "error"
        /\ Submissions(b) = 2
        /\ ~Stored(b)
        /\ Stored(b + 1)

FirstSubmit(e) == e.attempt = 1

RECURSIVE ConcatRows(_, _)
ConcatRows(log, n) ==
    IF n = 0 THEN << >> ELSE ConcatRows(log, n - 1) \o log[n].rows

\* C3: N rows and batch size B give ceil(N/B) batches of at most B rows
\* whose concatenation, in submission order, is the staged rows in order.
C3_BatchPartition ==
    l_pc = "returned" =>
        LET firsts == SelectSeq(submitLog, FirstSubmit) IN
        /\ Len(firsts) = CeilDiv(Len(staged), batch_size)
        /\ \A k \in 1..Len(firsts) :
              /\ Len(firsts[k].rows) <= batch_size
              /\ Len(firsts[k].rows) >= 1
        /\ \E toObject \in BOOLEAN :
              ConcatRows(firsts, Len(firsts)) = read_staged_csv(staged, toObject)

\* Five rows in batches of two: three batches, the last of one row.
C3_Witness ==
    /\ l_pc = "returned"
    /\ Len(staged) = 5
    /\ batch_size = 2
    /\ Len(SelectSeq(submitLog, FirstSubmit)) = 3

\* C4: at most `retries` attempts per city, a city that failed is followed
\* by the others, and the returned list holds one path per city whose fetch
\* succeeded.  (Fails: a fetched body {} is falsy and is not written.)
C4_OnePathPerFetchedCity ==
    /\ \A k \in 1..NumCities : e_tries[k] <= Retries
    /\ \A k \in 1..NumCities : e_result[k] = "failed" => e_tries[k] = Retries
    /\ e_pc = "returned" =>
        /\ \A k \in 1..NumCities : e_result[k] # "none"
        /\ Len(saved_files)
             = Cardinality({ k \in 1..NumCities : e_result[k] = "fetched" })
        /\ Len(saved_files) <= Len(writeLog)
        /\ SubSeq(writeLog, Len(writeLog) - Len(saved_files) + 1, Len(writeLog))
             = saved_files

\* A null pollutant counted as 0.
ZeroIfNull(v) == IF IsNull(v) THEN 0 ELSE v

WeightedSum(r) ==
    5 * ZeroIfNull(r.pm2_5) + 3 * ZeroIfNull(r.pm10)
    + 4 * ZeroIfNull(r.nitrogen_dioxide) + 4 * ZeroIfNull(r.sulphur_dioxide)
    + 2 * ZeroIfNull(r.carbon_monoxide) + 3 * ZeroIfNull(r.ozone)

RiskOf(sev) ==
    IF sev > 400 THEN "High Risk"
    ELSE IF sev > 200 THEN "Moderate Risk"
    ELSE "Low Risk"

\* C5: every staged row has the weighted sum of its pollutants, a null one
\* counted as 0, as severity, and the risk of that sum.  (Fails: a null
\* pollutant makes the severity NaN and the risk "Low Risk".)
C5_SeverityCountsNullAsZero ==
    t_pc = "returned" =>
        \A i \in 1..Len(staged) :
            /\ staged[i].Pollution_Severity = WeightedSum(staged[i])
            /\ staged[i].Risk_Level = RiskOf(WeightedSum(staged[i]))

StepCategory(v) ==
    IF v <= 50 THEN "Good"
    ELSE IF v <= 100 THEN "Moderate"
    ELSE IF v <= 200 THEN "Unhealthy"
    ELSE IF v <= 300 THEN "Very Unhealthy"
    ELSE "Hazardous"

\* C6: every staged row has the step category of its PM2.5, a null PM2.5
\* taken as 0.  (Fails: a null PM2.5 is categorised "Hazardous".)
C6_CategoryOfNullIsGood ==
    t_pc = "returned" =>
        \A i \in 1..Len(staged) :
            staged[i].AQI_Category = StepCategory(ZeroIfNull(staged[i].pm2_5))

\* The time-array lengths of the files that hold hourly data.
RECURSIVE TimeCount(_)
TimeCount(files) ==
    IF files = { } THEN 0
    ELSE LET f == CHOOSE g \in files : TRUE
         IN  (IF f.body.kind = "hourly" THEN Len(f.body.time) ELSE 0)
             + TimeCount(files \ { f })

SamePollutants(row, rec) == \A p \in PollutantSet :
    IF IsNull(rec[p]) THEN IsNull(row[p]) ELSE row[p] = rec[p]

\* C7: one record is built per element of each file's time array, and when
\* the transformer has ended the staged file holds exactly the records with
\* a non-null pollutant.  (Fails: a record that holds None makes the feature
\* lines raise, and nothing is staged.)
C7_StagedIffSomePollutant ==
    (t_pc \in { "returned", "raised" }) =>
        LET kept == SelectSeq(all_records, KeepRow) IN
        /\ Len(all_records) = TimeCount(rawFiles)
        /\ Len(staged) = Len(kept)
        /\ \A i \in 1..Len(kept) :
              /\ staged[i].city = kept[i]["city"]
              /\ staged[i].time = kept[i]["time"]
              /\ SamePollutants(staged[i], kept[i])

IsPrefix(s, t) == Len(s) <= Len(t) /\ \A k \in 1..Len(s) : s[k] = t[k]

\* C8: run_pipeline starts the stages in the order extract, transform,
\* table-create, load, analysis, each after the one before it has returned;
\* after a stage has raised no later stage is started.
C8_StagesInOrder ==
    pc # "standalone" =>
        /\ IsPrefix(started, StageOrder)
        /\ \A k \in 1..Len(StageOrder) :
              StagePc(StageOrder[k]) # "idle" => k <= Len(started)
        /\ \A k \in 1..(Len(started) - 1) : StagePc(started[k]) = "returned"

\* The transformer raised, and neither the loader nor the analyzer ran.
C8_Witness ==
    /\ pc = "aborted"
    /\ t_pc = "raised"
    /\ started = << "extract", "transform" >>
    /\ c_pc = "idle" /\ l_pc = "idle" /\ a_pc = "idle"

\* C9: no path is written twice, in one extraction run or across runs.
\* (Fails: the name has the resolution of a second, and open(.., "w")
\* truncates.)
C9_NeverOverwritesRawFile ==
    \A i \in 1..Len(writeLog) : \A j \in 1..Len(writeLog) :
        i < j => writeLog[i] # writeLog[j]

Rank(c) == CHOOSE k \in 1..Len(NameOrder) : NameOrder[k] = c

MeanOf(df, c, col) ==
    << SumTo(df, "city", c, col, Len(df)), CountOf(df, "city", c, col) >>

\* c has the highest mean of col, and is the first in name order to have it.
FirstArgMax(df, c, col) ==
    /\ CountOf(df, "city", c, col) > 0
    /\ \A i \in 1..Len(df) :
          LET d == df[i].city IN
          CountOf(df, "city", d, col) > 0 =>
              /\ ~MeanLt(MeanOf(df, c, col), MeanOf(df, d, col))
              /\ Rank(d) < Rank(c) => MeanLt(MeanOf(df, d, col), MeanOf(df, c, col))

\* Some city has a mean of col: a row of the table has a value in it.
SomeMean(df, col) == \E i \in 1..Len(df) : ~IsNull(df[i][col])

\* The city compute_kpis reports for col: when a city has a mean, the first
\* in name order of those with the highest; when none has, no city.
ReportsArgMax(df, c, col) ==
    IF SomeMean(df, col) THEN FirstArgMax(df, c, col) ELSE c = NoCity

\* C10: the city reported for PM2.5 (and for severity) has the highest
\* per-city mean, and among the cities that tie for it is the first in
\* ascending name order; no city is reported when no city has a mean.
C10_ArgmaxFirstByName ==
    csvs_written =>
        /\ ReportsArgMax(store, metrics.city_highest_avg_pm2_5, "pm2_5")
        /\ ReportsArgMax(store, metrics.city_highest_severity, "severity_score")

\* Mumbai comes first in the table and ties with Bengaluru for the highest
\* mean PM2.5; Bengaluru is reported.
C10_Witness ==
    /\ a_pc = "returned" /\ csvs_written
    /\ Len(store) >= 2
    /\ store[1].city = "Mumbai"
    /\ ~MeanLt(MeanOf(store, "Mumbai", "pm2_5"), MeanOf(store, "Bengaluru", "pm2_5"))
    /\ ~MeanLt(MeanOf(store, "Bengaluru", "pm2_5"), MeanOf(store, "Mumbai", "pm2_5"))
    /\ CountOf(store, "city", "Bengaluru", "pm2_5") > 0
    /\ CountOf(store, "city", "Mumbai", "pm2_5") > 0
    /\ metrics.city_highest_avg_pm2_5 = "Bengaluru"

====
